---- MODULE Spec2Model ----
(***************************************************************************)
(* Model of pulsar's asynchronous client: ConnectionPool and Client of     *)
(* pulsar/async/transports/clients.py and the HTTP plugins of              *)
(* pulsar/apps/http/plugins.py.                                            *)
(*                                                                         *)
(* Spec          the connection pools of one Client                        *)
(* SpecRedirect  the redirect chain of one logical HTTP request            *)
(* SpecHttp      one HTTP exchange under handle_100 and Tunneling          *)
(***************************************************************************)
EXTENDS Integers, FiniteSets, Sequences, TLC

\* ------------------------------------------------------------------ bounds
MaxConns == 2
MaxPools == 2
MaxConsumers == 3
MaxRequests == 2
MaxMaxConnections == 2
MaxMaxReconnect == 2
MaxMaxRedirects == 3

None == 0
Conns == 1..MaxConns
Pools == 1..MaxPools
Consumers == 1..MaxConsumers

\* Request.key: (address, timeout)
Keys == {<<"a", 0>>, <<"b", 0>>}

\* the exc argument of connection_lost
Excs == {"none", "socket.timeout", "socket.error", "other"}

\* the producer of a connection: the Client, or a ConnectionPool
NoProducer == <<"none", 0>>
TheClient == <<"Client", 0>>
ThePool(p) == <<"ConnectionPool", p>>

ONE_TIME_EVENTS == {"finish"}
MANY_TIMES_EVENTS == {"connection_made", "pre_request", "post_request", "connection_lost"}
ConsumerEvents == {"pre_request", "post_request", "finish"}

\* ------------------------------------------------------------ pool state
VARIABLES
    connection_pools,        \* Client.connection_pools: key -> pool (None: no entry)
    max_connections,         \* Client.max_connections
    max_reconnect,           \* Client.max_reconnect
    reuse_overridden,        \* the Client subclass overrides can_reuse_connection
    single,                  \* the Client is a SingleClient
    single_consumer,         \* SingleClient._consumer
    npools,                  \* ConnectionPool objects constructed so far
    pool_key,                \* pool -> (address, timeout) of its request
    pool_max,                \* pool -> Producer._max_connections
    available,               \* pool -> ConnectionPool._available_connections
    concurrent,              \* pool -> Producer._concurrent_connections
    nconns,                  \* Connection objects built so far
    transports,              \* transports created by create_transport
    conn_pool,               \* connection -> the pool that built it
    producer,                \* connection -> Connection.producer
    closed,                  \* connection -> Connection.closed
    lost,                    \* connection -> connection_lost has fired
    expired,                 \* connection -> idle timeout elapsed
    upgraded,                \* connection -> "no", "client" (Client.upgrade), "101" (handle_101)
    current_consumer,        \* connection -> Connection._current_consumer
    nconsumers,              \* ProtocolConsumers built so far
    connection,              \* consumer -> its connection
    current_request,         \* consumer -> key of its current request
    cstate,                  \* consumer -> "new", "requesting", "finished"
    release_flag,            \* consumer -> its release_connection attribute
    retries,                 \* consumer -> reconnect attempts made
    new_requests,            \* consumer -> calls of new_request
    fired,                   \* event -> consumer -> times the event fired
    just_released,           \* pool -> connection of the latest reusing release
    last                     \* what the latest operation did

poolvars == <<connection_pools, max_connections, max_reconnect, reuse_overridden,
              single, single_consumer, npools, pool_key, pool_max, available,
              concurrent, nconns, transports, conn_pool, producer, closed, lost,
              expired, upgraded, current_consumer, nconsumers, connection,
              current_request, cstate, release_flag, retries, new_requests,
              fired, just_released, last>>

\* ------------------------------------------------------- redirect state
VARIABLES
    request,          \* the request of the current exchange
    heap,             \* the history lists: reference -> list of responses
    responses,        \* response -> its status_code
    outcome,          \* "send", "done", "TooManyRedirects"
    all_redirects,    \* every exchange so far was answered with a followed redirect
    redirected        \* the latest _do_redirect: the request, what its history
                      \* list held, the response and the request_again

redirectvars == <<request, heap, responses, outcome, all_redirects, redirected>>

\* ---------------------------------------------------- http exchange state
VARIABLES
    http_request,     \* the HttpRequest: expect (the header Expect: 100-continue),
                      \* body, _tunnel (a tunnel request is set), _apply_tunnel
    http_response,    \* the HttpResponse consumer of the connection: status_code,
                      \* _request ("request" or its "tunnel"), the handlers
                      \* bound to its events, phase, the result of post_request,
                      \* chained (its on_finished is chained to the future d)
    http_connection,  \* the connection: is_tls, reader (the loop reads its
                      \* socket), scheduled (call_later(1, switch_to_ssl)
                      \* pending), d (the Future of _tunnel_consumer),
                      \* silenced (connection_made), consumers built,
                      \* _processed
    parser_resets,    \* calls of request.new_parser()
    trace             \* what the exchange did, in order

httpvars == <<http_request, http_response, http_connection, parser_resets, trace>>

\* the state as one value, so that a handler's calls compose
State ==
    [cp |-> connection_pools, maxc |-> max_connections, maxr |-> max_reconnect,
     npools |-> npools, pkey |-> pool_key, pmax |-> pool_max,
     av |-> available, cc |-> concurrent, nconns |-> nconns, tr |-> transports,
     cpool |-> conn_pool, prod |-> producer, closed |-> closed, lost |-> lost,
     expired |-> expired, up |-> upgraded, cur |-> current_consumer,
     ncons |-> nconsumers, kconn |-> connection, kreq |-> current_request,
     kstate |-> cstate, krel |-> release_flag, kretries |-> retries,
     nreq |-> new_requests, fired |-> fired, jr |-> just_released,
     last |-> last]

Apply(t) ==
    /\ connection_pools' = t.cp
    /\ max_connections' = t.maxc
    /\ max_reconnect' = t.maxr
    /\ npools' = t.npools
    /\ pool_key' = t.pkey
    /\ pool_max' = t.pmax
    /\ available' = t.av
    /\ concurrent' = t.cc
    /\ nconns' = t.nconns
    /\ transports' = t.tr
    /\ conn_pool' = t.cpool
    /\ producer' = t.prod
    /\ closed' = t.closed
    /\ lost' = t.lost
    /\ expired' = t.expired
    /\ upgraded' = t.up
    /\ current_consumer' = t.cur
    /\ nconsumers' = t.ncons
    /\ connection' = t.kconn
    /\ current_request' = t.kreq
    /\ cstate' = t.kstate
    /\ release_flag' = t.krel
    /\ retries' = t.kretries
    /\ new_requests' = t.nreq
    /\ fired' = t.fired
    /\ just_released' = t.jr
    /\ last' = t.last
    /\ UNCHANGED <<redirectvars, httpvars>>

\* last: what the latest operation did.  acquired: get_or_create_connection ran,
\* on pool apool, returned conn (created: newly built) or raised err, built
\* newtr transports, found the pool full at admission; expect was the
\* connection of the latest reusing release, usable if it was then idle and
\* not stale, others the other idle, non stale members of available.
\* idle: the members of available it found, stale: those of them that were
\* stale.
\* rpool: the pool a release or a removal emptied, registered: it was still an
\* entry of connection_pools when that release or removal returned.
\* removals: for each entry remove_pool popped, the pool it was called with
\* and the pool the entry held.
\* tried: _try_reconnect ran, for the lost connection lostconn with texc;
\* before and after: the current consumer of lostconn when it was called and
\* when it returned; treq and tnreq: the current_request of that consumer and
\* its count of new_request calls when it was called; tretries: what
\* can_reconnect returned, 0 when it was not called; reconnect: _reconnect was
\* called; scheduled: it was handed to call_later.
NoOp ==
    [op |-> "init", acquired |-> FALSE, apool |-> None, conn |-> None,
     created |-> FALSE, err |-> "", newtr |-> 0, expect |-> None,
     usable |-> FALSE, others |-> {}, full |-> FALSE,
     idle |-> {}, stale |-> {},
     removals |-> {},
     tried |-> FALSE, lostconn |-> None, texc |-> "none", before |-> None,
     after |-> None, treq |-> <<>>, tnreq |-> 0, tretries |-> 0,
     reconnect |-> FALSE, scheduled |-> FALSE,
     rpool |-> None, registered |-> FALSE]

Begin(s, name) == [s EXCEPT !.last = [NoOp EXCEPT !.op = name]]

PoolInit ==
    /\ connection_pools = [k \in Keys |-> None]
    /\ max_connections \in 1..MaxMaxConnections
    /\ max_reconnect \in 1..MaxMaxReconnect
    /\ reuse_overridden \in BOOLEAN
    /\ single \in BOOLEAN
    /\ single_consumer = None
    /\ npools = 0
    /\ pool_key = [p \in Pools |-> <<>>]
    /\ pool_max = [p \in Pools |-> 0]
    /\ available = [p \in Pools |-> {}]
    /\ concurrent = [p \in Pools |-> {}]
    /\ nconns = 0
    /\ transports = 0
    /\ conn_pool = [c \in Conns |-> None]
    /\ producer = [c \in Conns |-> NoProducer]
    /\ closed = [c \in Conns |-> FALSE]
    /\ lost = [c \in Conns |-> FALSE]
    /\ expired = [c \in Conns |-> FALSE]
    /\ upgraded = [c \in Conns |-> "no"]
    /\ current_consumer = [c \in Conns |-> None]
    /\ nconsumers = 0
    /\ connection = [k \in Consumers |-> None]
    /\ current_request = [k \in Consumers |-> <<>>]
    /\ cstate = [k \in Consumers |-> "new"]
    /\ release_flag = [k \in Consumers |-> TRUE]
    /\ retries = [k \in Consumers |-> 0]
    /\ new_requests = [k \in Consumers |-> 0]
    /\ fired = [e \in ConsumerEvents |-> [k \in Consumers |-> 0]]
    /\ just_released = [p \in Pools |-> None]
    /\ last = NoOp

\* ----------------------------------------------- events and consumers
\* EventHandler.fire_event on a consumer: a one time event fires at most once
fire_event(s, k, name) ==
    IF name \in ONE_TIME_EVENTS /\ s.fired[name][k] >= 1
    THEN s
    ELSE [s EXCEPT !.fired[name][k] = @ + 1]

\* Connection.set_consumer
set_consumer(s, c, k) == [s EXCEPT !.cur[c] = k, !.kconn[k] = c]

\* ProtocolConsumer.new_request: fires pre_request, then writes the request
new_request(s, k, req) ==
    LET c == s.kconn[k]
        s1 == [s EXCEPT !.kreq[k] = req, !.nreq[k] = @ + 1,
                        !.kstate[k] = "requesting",
                        !.cur[c] = IF @ = None THEN k ELSE @]
    IN  fire_event(s1, k, "pre_request")

\* Connection.is_stale: the idle timeout has elapsed or the peer closed
is_stale(s, c) == s.closed[c] \/ s.expired[c]

\* ProtocolConsumer.can_reconnect(max_reconnect, exc): the number of the
\* retry, 0 when the consumer has received data or used up its retries
can_reconnect(s, k, maxr, received) ==
    IF received \/ s.kretries[k] >= maxr
    THEN [s |-> s, retries |-> 0]
    ELSE [s |-> [s EXCEPT !.kretries[k] = @ + 1], retries |-> s.kretries[k] + 1]

\* ------------------------------------------------------------- Client
\* Client.can_reuse_connection
can_reuse_connection(c, k) == TRUE

\* what connection.producer.can_reuse_connection may return
ReuseResults(c, k) ==
    IF reuse_overridden THEN BOOLEAN ELSE {can_reuse_connection(c, k)}

\* Client.remove_pool, with the missing break a plausible slip
remove_pool_nobreak(s, pool) ==
    LET reg == {k \in Keys : s.cp[k] # None}
    IN  IF reg = {} THEN {s} ELSE {[s EXCEPT !.cp[k] = None] : k \in reg}

\* Client.remove_pool: key is the key of pool when the loop breaks on it, else
\* the last key the loop visited (any entry: the order of a dict), else None
remove_pool(s, pool) ==
    LET reg == {k \in Keys : s.cp[k] # None}
        hit == {k \in reg : s.cp[k] = pool}
        keys == IF hit # {} THEN hit ELSE reg
    IN  IF keys = {}
        THEN {s}
        ELSE {[s EXCEPT !.cp[k] = None,
                        !.last.removals = @ \cup {[pool |-> pool, was |-> s.cp[k]]}]
              : k \in keys}

\* ----------------------------------------------------- ConnectionPool
Registered(s, p) == \E k \in Keys : s.cp[k] = p

\* ConnectionPool._remove_self
_remove_self(s, p) ==
    IF s.av[p] = {} /\ s.cc[p] = {} THEN remove_pool(s, p) ELSE {s}

\* records whether the pool an operation emptied is still registered
NoteEmptied(t, p) ==
    IF t.av[p] = {} /\ t.cc[p] = {}
    THEN [t EXCEPT !.last.rpool = p, !.last.registered = Registered(t, p)]
    ELSE t

release_connection_nodiscard(s, p, c, k, reuse) ==
    LET s2 == IF reuse THEN [s EXCEPT !.av[p] = @ \cup {c}] ELSE s
    IN  {NoteEmptied(t, p) : t \in _remove_self(s2, p)}

\* ConnectionPool.release_connection; reuse is what
\* connection.producer.can_reuse_connection(connection, response) returned
release_connection(s, p, c, k, reuse) ==
    LET s1 == [s EXCEPT !.cc[p] = @ \ {c}]
        s2 == IF reuse
              THEN [s1 EXCEPT !.av[p] = @ \cup {c},
                              !.jr[p] = IF s.closed[c] THEN None ELSE c]
              ELSE [s1 EXCEPT !.jr[p] = None]
    IN  {NoteEmptied(t, p) : t \in _remove_self(s2, p)}

\* ConnectionPool._release_response, bound to post_request of the connection
\* by the pool that built it
_release_response(s, k, reuse) ==
    LET c == s.kconn[k]
    IN  IF s.krel[k]
        THEN release_connection(s, s.cpool[c], c, k, reuse)
        ELSE {s}

\* Producer._remove_connection followed by ConnectionPool._remove_connection
_remove_connection(s, p, c) ==
    LET s1 == [s EXCEPT !.cc[p] = @ \ {c}, !.av[p] = @ \ {c}]
    IN  {NoteEmptied(t, p) : t \in _remove_self(s1, p)}

\* Producer.new_connection: admission; 0 means no limit
Admitted(s, p) ==
    s.pmax[p] = 0 \/ Cardinality(s.av[p]) + Cardinality(s.cc[p]) < s.pmax[p]

\* Producer.new_connection: the new connection, its producer as passed
new_connection(s, p, prod) ==
    LET c == s.nconns + 1
    IN  [s EXCEPT !.nconns = c, !.cpool[c] = p, !.prod[c] = prod]

\* Producer._add_connection, on connection_made
_add_connection(s, p, c) == [s EXCEPT !.cc[p] = @ \cup {c}]

\* the loop of get_or_create_connection, ended by the first connection popped
Drain_first(s, p) ==
    IF s.av[p] = {}
    THEN {[s |-> s, conn |-> None]}
    ELSE {[s |-> [s EXCEPT !.av[p] = @ \ {c}], conn |-> c] : c \in s.av[p]}

\* the loop of get_or_create_connection leaving the transport of a stale
\* connection as it is
RECURSIVE Drain_noclose(_, _)
Drain_noclose(s, p) ==
    IF s.av[p] = {}
    THEN {[s |-> s, conn |-> None]}
    ELSE UNION {
           LET s1 == [s EXCEPT !.av[p] = @ \ {c}]
           IN  IF is_stale(s1, c)
               THEN Drain_noclose(s1, p)
               ELSE {[s |-> s1, conn |-> c]}
           : c \in s.av[p]}

\* the loop of get_or_create_connection: set.pop() takes any member
RECURSIVE Drain(_, _)
Drain(s, p) ==
    IF s.av[p] = {}
    THEN {[s |-> s, conn |-> None]}
    ELSE UNION {
           LET s1 == [s EXCEPT !.av[p] = @ \ {c}]
           IN  IF is_stale(s1, c)
               THEN Drain([s1 EXCEPT !.closed[c] = TRUE], p)
               ELSE {[s |-> s1, conn |-> c]}
           : c \in s.av[p]}

\* what get_or_create_connection finds when it is called
Found(s, p) ==
    [s EXCEPT !.last.acquired = TRUE, !.last.apool = p,
              !.last.expect = s.jr[p],
              !.last.usable = /\ s.jr[p] # None
                              /\ s.jr[p] \in s.av[p]
                              /\ ~is_stale(s, s.jr[p]),
              !.last.others = {c \in s.av[p] \ {s.jr[p]} : ~is_stale(s, c)},
              !.last.idle = s.av[p],
              !.last.stale = {c \in s.av[p] : is_stale(s, c)},
              !.jr[p] = None]

\* get_or_create_connection with the connection built by the factory directly,
\* past the admission of new_connection
get_or_create_connection_unchecked(s, p) ==
    UNION {
      IF d.conn # None
      THEN {[d.s EXCEPT !.cc[p] = @ \cup {d.conn}, !.last.conn = d.conn]}
      ELSE LET f == [d.s EXCEPT !.last.full = ~Admitted(d.s, p)]
           IN  IF f.nconns >= MaxConns
               THEN {}
               ELSE LET n == new_connection(f, p, TheClient)
                        c == n.nconns
                        t == [n EXCEPT !.tr = @ + 1, !.last.newtr = @ + 1]
                    IN  {[_add_connection(t, p, c)
                            EXCEPT !.last.conn = c, !.last.created = TRUE]}
      : d \in Drain(Found(s, p), p)}

\* get_or_create_connection with producer=self in place of producer=client
get_or_create_connection_self(s, p) ==
    UNION {
      IF d.conn # None
      THEN {[d.s EXCEPT !.cc[p] = @ \cup {d.conn}, !.last.conn = d.conn]}
      ELSE LET full == ~Admitted(d.s, p)
               f == [d.s EXCEPT !.last.full = full]
           IN  IF full
               THEN {[f EXCEPT !.last.err = "TooManyConnections"]}
               ELSE IF f.nconns >= MaxConns
               THEN {}
               ELSE LET n == new_connection(f, p, ThePool(p))
                        c == n.nconns
                        t == [n EXCEPT !.tr = @ + 1, !.last.newtr = @ + 1]
                    IN  {[_add_connection(t, p, c)
                            EXCEPT !.last.conn = c, !.last.created = TRUE]}
      : d \in Drain(Found(s, p), p)}

\* ConnectionPool.get_or_create_connection
get_or_create_connection(s, p) ==
    UNION {
      IF d.conn # None
      THEN {[d.s EXCEPT !.cc[p] = @ \cup {d.conn}, !.last.conn = d.conn]}
      ELSE LET full == ~Admitted(d.s, p)
               f == [d.s EXCEPT !.last.full = full]
           IN  IF full
               THEN {[f EXCEPT !.last.err = "TooManyConnections"]}
               ELSE IF f.nconns >= MaxConns
               THEN {}
               ELSE LET n == new_connection(f, p, TheClient)
                        c == n.nconns
                        t == [n EXCEPT !.tr = @ + 1, !.last.newtr = @ + 1]
                    IN  {[_add_connection(t, p, c)
                            EXCEPT !.last.conn = c, !.last.created = TRUE]}
      : d \in Drain(Found(s, p), p)}

\* _reconnect replaying the request without set_consumer
_reconnect_noset(s, p, k) ==
    {IF t.last.err # ""
     THEN t
     ELSE new_request(t, k, t.kreq[k])
     : t \in get_or_create_connection([s EXCEPT !.last.reconnect = TRUE], p)}

\* ConnectionPool._reconnect
_reconnect(s, p, k) ==
    {IF t.last.err # ""
     THEN t
     ELSE new_request(set_consumer(t, t.last.conn, k), k, t.kreq[k])
     : t \in get_or_create_connection([s EXCEPT !.last.reconnect = TRUE], p)}

\* the names bound in the module pulsar.async.transports.clients
ClientModuleNames ==
    {"socket", "partial", "reduce", "TooManyConnections", "get_event_loop",
     "new_event_loop", "itervalues", "get_transport_type", "create_socket",
     "is_failure", "ProtocolConsumer", "EventHandler", "Producer",
     "create_transport", "LOGGER", "Request", "ConnectionPool", "Client",
     "SingleClient"}

\* Client.reconnect_time_lag: self.reconnect_time_lag*(math.log(lag) + 1)
\* looks up math, which the module does not bind, and would multiply the
\* bound method itself by a float: it raises either way
reconnect_time_lag(lag) ==
    IF "math" \in ClientModuleNames THEN "TypeError" ELSE "NameError"

\* what _try_reconnect found when it was called
Tried(s, c, exc) ==
    LET k == s.cur[c]
    IN  [s EXCEPT !.last.tried = TRUE, !.last.lostconn = c, !.last.texc = exc,
                  !.last.before = k, !.last.after = k,
                  !.last.treq = IF k = None THEN <<>> ELSE s.kreq[k],
                  !.last.tnreq = IF k = None THEN 0 ELSE s.nreq[k]]

\* _try_reconnect without the test of exc
_try_reconnect_anyexc(s, p, c, exc, received) ==
    LET s0 == Tried(s, c, exc)
        k == s.cur[c]
    IN  IF k = None
        THEN {s0}
        ELSE LET r == can_reconnect(s0, k, s.maxr, received)
                 s1 == [r.s EXCEPT !.cur[c] = None, !.last.after = None,
                                   !.last.tretries = r.retries]
                 lag == r.retries - 1
             IN  IF r.retries # 0
                 THEN IF lag # 0
                      THEN IF reconnect_time_lag(lag) \in {"NameError", "TypeError"}
                           THEN {s1}
                           ELSE {[s1 EXCEPT !.last.scheduled = TRUE]}
                      ELSE _reconnect(s1, p, k)
                 ELSE {r.s}

\* ConnectionPool._try_reconnect; received: the consumer has received data.
\* With lag # 0 client.reconnect_time_lag(lag) is evaluated before call_later
\* is reached.
_try_reconnect(s, p, c, exc, received) ==
    LET s0 == Tried(s, c, exc)
    IN  IF exc \in {"socket.timeout", "socket.error"}
        THEN LET k == s.cur[c]
             IN  IF k = None
                 THEN {s0}
                 ELSE LET r == can_reconnect(s0, k, s.maxr, received)
                          s1 == [r.s EXCEPT !.cur[c] = None, !.last.after = None,
                                            !.last.tretries = r.retries]
                          lag == r.retries - 1
                      IN  IF r.retries # 0
                          THEN IF lag # 0
                               THEN IF reconnect_time_lag(lag)
                                         \in {"NameError", "TypeError"}
                                    THEN {s1}
                                    ELSE {[s1 EXCEPT !.last.scheduled = TRUE]}
                               ELSE _reconnect(s1, p, k)
                          ELSE {r.s}
        ELSE {s0}

\* ProtocolConsumer.finished: the connection drops its consumer,
\* post_request fires (the pool's _release_response is bound to it), then finish
finished(s, k, reuse) ==
    LET c == s.kconn[k]
        s1 == [s EXCEPT !.cur[c] = IF @ = k THEN None ELSE @,
                        !.kstate[k] = "finished"]
        s2 == fire_event(s1, k, "post_request")
    IN  {fire_event(t, k, "finish") : t \in _release_response(s2, k, reuse)}

\* Connection.connection_lost: the handlers bound by new_connection and by
\* get_or_create_connection run in the order they were bound, then the
\* consumer the connection still has is told and finishes with the failure
connection_lost(s, c, exc, received, reuse) ==
    LET p == s.cpool[c]
        s1 == [s EXCEPT !.closed[c] = TRUE, !.lost[c] = TRUE]
    IN  UNION {IF u.cur[c] # None THEN finished(u, u.cur[c], reuse) ELSE {u}
               : u \in UNION {_try_reconnect(t, p, c, exc, received)
                              : t \in _remove_connection(s1, p, c)}}

\* Client.get_connection building the pool without max_connections
get_connection_nomax(s, key) ==
    IF s.cp[key] # None
    THEN get_or_create_connection(s, s.cp[key])
    ELSE IF s.npools >= MaxPools
    THEN {}
    ELSE LET p == s.npools + 1
             s1 == [s EXCEPT !.npools = p, !.pkey[p] = key, !.cp[key] = p]
         IN  get_or_create_connection(s1, p)

\* Client.get_connection
get_connection(s, key) ==
    IF s.cp[key] # None
    THEN get_or_create_connection(s, s.cp[key])
    ELSE IF s.npools >= MaxPools
    THEN {}
    ELSE LET p == s.npools + 1
             s1 == [s EXCEPT !.npools = p, !.pkey[p] = key,
                             !.pmax[p] = s.maxc, !.cp[key] = p]
         IN  get_or_create_connection(s1, p)

\* Client.response; TooManyConnections propagates to the caller
response(s, key) ==
    UNION {IF t.last.err # ""
           THEN {t}
           ELSE IF t.ncons >= MaxConsumers
           THEN {}
           ELSE LET k == t.ncons + 1
                    c == t.last.conn
                    t1 == [t EXCEPT !.ncons = k, !.kconn[k] = c, !.cur[c] = k]
                IN  {new_request(t1, k, key)}
           : t \in get_connection(s, key)}

\* Client.upgrade
upgrade(s, c, reuse) ==
    LET k == s.cur[c]
    IN  IF k # None
        THEN {[t EXCEPT !.up[c] = "client"]
              : t \in finished([s EXCEPT !.krel[k] = FALSE], k, reuse)}
        ELSE {s}

\* handle_101 with status_code 101 and no exc
handle_101(s, k, reuse) ==
    LET c == s.kconn[k]
    IN  finished([s EXCEPT !.up[c] = "101"], k, reuse)

\* ---------------------------------------------------------- actions
Attached(k) ==
    /\ k \in 1..nconsumers
    /\ cstate[k] = "requesting"
    /\ current_consumer[connection[k]] = k

\* Client.response(request), or SingleClient.response with no consumer yet
Response(key) ==
    /\ single => single_consumer = None
    /\ \E t \in response(Begin(State, "response"), key) :
          /\ Apply(t)
          /\ single_consumer' = IF single /\ t.last.err = ""
                                THEN t.ncons ELSE single_consumer
    /\ UNCHANGED <<reuse_overridden, single>>

\* SingleClient.response(request) with its consumer stored
SingleResponse(key) ==
    /\ single
    /\ single_consumer # None
    /\ new_requests[single_consumer] < MaxRequests
    /\ Apply(new_request(Begin(State, "response"), single_consumer, key))
    /\ UNCHANGED <<reuse_overridden, single, single_consumer>>

\* the exchange of consumer k ends: its response is complete
Finished(k) ==
    /\ Attached(k)
    /\ ~lost[connection[k]]
    /\ \E reuse \in ReuseResults(connection[k], k) :
          \E t \in finished(Begin(State, "finished"), k, reuse) : Apply(t)
    /\ UNCHANGED <<reuse_overridden, single, single_consumer>>

\* the headers of a 101 response arrive for consumer k
Handle101(k) ==
    /\ Attached(k)
    /\ ~closed[connection[k]]
    /\ upgraded[connection[k]] = "no"
    /\ \E reuse \in ReuseResults(connection[k], k) :
          \E t \in handle_101(Begin(State, "handle_101"), k, reuse) : Apply(t)
    /\ UNCHANGED <<reuse_overridden, single, single_consumer>>

\* Client.upgrade(connection, protocol_factory)
Upgrade(c) ==
    /\ c \in 1..nconns
    /\ ~closed[c]
    /\ upgraded[c] = "no"
    /\ \E reuse \in ReuseResults(c, current_consumer[c]) :
          \E t \in upgrade(Begin(State, "upgrade"), c, reuse) : Apply(t)
    /\ UNCHANGED <<reuse_overridden, single, single_consumer>>

\* the idle timeout of an available connection elapses
IdleTimeout(c) ==
    /\ c \in 1..nconns
    /\ c \in available[conn_pool[c]]
    /\ ~expired[c]
    /\ Apply([Begin(State, "idle") EXCEPT !.expired[c] = TRUE])
    /\ UNCHANGED <<reuse_overridden, single, single_consumer>>

\* the transport of connection c reports connection_lost(exc); a transport
\* the pool closed itself reports no failure
ConnectionLost(c, exc) ==
    /\ c \in 1..nconns
    /\ ~lost[c]
    /\ closed[c] => exc = "none"
    /\ \E received \in IF current_consumer[c] = None THEN {FALSE} ELSE BOOLEAN :
          \E reuse \in IF current_consumer[c] = None
                        THEN {TRUE}
                        ELSE ReuseResults(c, current_consumer[c]) :
             \E t \in connection_lost(Begin(State, "connection_lost"), c, exc,
                                      received, reuse) :
                Apply(t)
    /\ UNCHANGED <<reuse_overridden, single, single_consumer>>

PoolNext ==
    \/ \E key \in Keys : Response(key)
    \/ \E key \in Keys : SingleResponse(key)
    \/ \E k \in Consumers : Finished(k)
    \/ \E k \in Consumers : Handle101(k)
    \/ \E c \in Conns : Upgrade(c)
    \/ \E c \in Conns : IdleTimeout(c)
    \/ \E c \in Conns, exc \in Excs : ConnectionLost(c, exc)

\* ------------------------------------------------------------ redirects
\* pulsar.utils.httpurl.REDIRECT_CODES
REDIRECT_CODES == {301, 302, 303, 307, 308}
Statuses == {200, 302, 303, 307}
Methods == {"GET", "POST"}
Absent == "absent"

\* the location header: absent, //host/path, /path or an absolute url
Locations == {Absent, "//other/p", "/p", "http://other/p"}

\* the url _do_redirect computes from the location header
RedirectUrl(full_url, location) ==
    CASE location = "//other/p" -> [scheme |-> full_url.scheme, netloc |-> "other"]
      [] location = "/p" -> [scheme |-> full_url.scheme, netloc |-> full_url.netloc]
      [] OTHER -> [scheme |-> "http", netloc |-> "other"]

\* the request Client.request builds from (method, url, params)
Request(method, url, params, max_redirects, allow_redirects) ==
    [method |-> method, full_url |-> url, inp_params |-> params,
     history |-> params.history, max_redirects |-> max_redirects,
     allow_redirects |-> allow_redirects]

NotRedirected == [done |-> FALSE]

RedirectIdle ==
    /\ request = Request("GET", [scheme |-> "http", netloc |-> "h"],
                         [data |-> Absent, files |-> Absent, history |-> None],
                         0, FALSE)
    /\ heap = <<>>
    /\ responses = <<>>
    /\ outcome = "done"
    /\ all_redirects = FALSE
    /\ redirected = NotRedirected

RedirectInit ==
    /\ \E m \in Methods, d \in {Absent, "d"}, f \in {Absent, "f"},
          h \in {None, 1}, mr \in 0..MaxMaxRedirects, ar \in BOOLEAN,
          sc \in {"http", "https"} :
          /\ request = Request(m, [scheme |-> sc, netloc |-> "h"],
                               [data |-> d, files |-> f, history |-> h], mr, ar)
          /\ heap = IF h = None THEN <<>> ELSE << <<>> >>
    /\ responses = <<>>
    /\ outcome = "send"
    /\ all_redirects = TRUE
    /\ redirected = NotRedirected

\* handle_redirect with no exc: _do_redirect is bound to post_request
handle_redirect(rq, status, location) ==
    /\ status \in REDIRECT_CODES
    /\ location # Absent
    /\ rq.allow_redirects

\* _do_redirect with the copy of the history left out
_do_redirect_alias(rq, hp, resp, status, location) ==
    LET history == rq.history
        len == IF history = None THEN 0 ELSE Len(hp[history])
    IN  IF len # 0 /\ len >= rq.max_redirects
        THEN [raised |-> TRUE, heap |-> hp]
        ELSE LET fresh == Len(hp) + 1
                 ref == IF len # 0 THEN history ELSE fresh
                 hp1 == IF len # 0 THEN hp ELSE Append(hp, <<>>)
                 hp2 == [hp1 EXCEPT ![ref] = Append(@, resp)]
                 p303 == [data |-> Absent, files |-> Absent, history |-> ref]
                 pany == [rq.inp_params EXCEPT !.history = ref]
             IN  [raised |-> FALSE, heap |-> hp2,
                  method |-> IF status = 303 THEN "GET" ELSE rq.method,
                  url |-> RedirectUrl(rq.full_url, location),
                  params |-> IF status = 303 THEN p303 ELSE pany]

\* _do_redirect treating 302 as it treats 303
_do_redirect_302(rq, hp, resp, status, location) ==
    LET history == rq.history
        len == IF history = None THEN 0 ELSE Len(hp[history])
    IN  IF len # 0 /\ len >= rq.max_redirects
        THEN [raised |-> TRUE, heap |-> hp]
        ELSE LET fresh == Len(hp) + 1
                 copied == IF len # 0 THEN hp[history] ELSE <<>>
                 hp1 == Append(hp, Append(copied, resp))
                 p303 == [data |-> Absent, files |-> Absent, history |-> fresh]
                 pany == [rq.inp_params EXCEPT !.history = fresh]
                 see_other == status \in {302, 303}
             IN  [raised |-> FALSE, heap |-> hp1,
                  method |-> IF see_other THEN "GET" ELSE rq.method,
                  url |-> RedirectUrl(rq.full_url, location),
                  params |-> IF see_other THEN p303 ELSE pany]

\* _do_redirect: raises TooManyRedirects or returns request_again(method, url,
\* params); a falsy history is None or the empty list
_do_redirect(rq, hp, resp, status, location) ==
    LET history == rq.history
        len == IF history = None THEN 0 ELSE Len(hp[history])
    IN  IF len # 0 /\ len >= rq.max_redirects
        THEN [raised |-> TRUE, heap |-> hp]
        ELSE LET fresh == Len(hp) + 1
                 copied == IF len # 0 THEN hp[history] ELSE <<>>
                 hp1 == Append(hp, Append(copied, resp))
                 p303 == [data |-> Absent, files |-> Absent, history |-> fresh]
                 pany == [rq.inp_params EXCEPT !.history = fresh]
             IN  [raised |-> FALSE, heap |-> hp1,
                  method |-> IF status = 303 THEN "GET" ELSE rq.method,
                  url |-> RedirectUrl(rq.full_url, location),
                  params |-> IF status = 303 THEN p303 ELSE pany]

\* one exchange: the server answers the request with status and location;
\* handle_redirect runs on the headers, post_request runs _do_redirect when
\* bound, and the Client dispatches the request_again it returns
Exchange(status, location) ==
    /\ outcome = "send"
    /\ UNCHANGED <<poolvars, httpvars>>
    /\ LET resp == Len(responses) + 1
           follow == handle_redirect(request, status, location)
           r == _do_redirect(request, heap, resp, status, location)
       IN  /\ responses' = Append(responses, status)
           /\ all_redirects' = (all_redirects /\ follow)
           /\ IF ~follow
              THEN /\ outcome' = "done"
                   /\ redirected' = NotRedirected
                   /\ UNCHANGED <<request, heap>>
              ELSE IF r.raised
              THEN /\ outcome' = "TooManyRedirects"
                   /\ redirected' = NotRedirected
                   /\ UNCHANGED <<request, heap>>
              ELSE /\ outcome' = "send"
                   /\ heap' = r.heap
                   /\ request' = Request(r.method, r.url, r.params,
                                         request.max_redirects,
                                         request.allow_redirects)
                   /\ redirected' =
                        [done |-> TRUE, request |-> request,
                         before |-> IF request.history = None THEN <<>>
                                    ELSE heap[request.history],
                         response |-> resp, status |-> status,
                         method |-> r.method, params |-> r.params]

RedirectNext == \E status \in Statuses, location \in Locations : Exchange(status, location)

\* -------------------------------------------------------- http exchange
\* the names bound in the module pulsar.apps.http.plugins: its imports and
\* its own classes and functions
ModuleNames ==
    {"sys", "partial", "namedtuple", "copy", "Future", "WebSocketProtocol",
     "WS", "frame_parser", "is_tls", "REDIRECT_CODES", "urlparse", "urljoin",
     "requote_uri", "SimpleCookie", "PulsarException", "request_again",
     "TooManyRedirects", "WebSocketClient", "handle_redirect", "_do_redirect",
     "handle_cookies", "handle_100", "_write_body", "handle_101", "Tunneling"}

\* the status of a reply: interim, success, refused by the proxy
HttpStatuses == {100, 200, 407}

\* a consumer as the connection builds it: the hooks of the client are bound
NewConsumer(n) ==
    [id |-> n, status_code |-> None, _request |-> "none",
     bound |-> [pre_request |-> <<"handle_100", "Tunneling">>,
                on_headers |-> <<>>, post_request |-> <<>>],
     phase |-> "new", result |-> "none", chained |-> FALSE]

HttpState ==
    [rq |-> http_request, rs |-> http_response, cn |-> http_connection,
     resets |-> parser_resets, tr |-> trace]

ApplyHttp(h) ==
    /\ http_request' = h.rq
    /\ http_response' = h.rs
    /\ http_connection' = h.cn
    /\ parser_resets' = h.resets
    /\ trace' = h.tr
    /\ UNCHANGED <<poolvars, redirectvars>>

Did(h, what) == [h EXCEPT !.tr = Append(@, what)]

\* EventHandler.bind_event on the response
bind_event(h, name, handler) == [h EXCEPT !.rs.bound[name] = Append(@, handler)]

\* _write_body
_write_body(h) ==
    IF h.rs.status_code = 100
    THEN LET h1 == [h EXCEPT !.resets = @ + 1]
         IN  IF h1.rq.body THEN Did(h1, "write body") ELSE h1
    ELSE h

\* handle_100, with no exc
handle_100(h) ==
    IF h.rq.expect /\ h.rs.status_code = 100
    THEN bind_event(h, "on_headers", "_write_body")
    ELSE h

\* Tunneling.__call__
Tunneling(h) ==
    IF h.rs._request # "none" /\ h.rq._tunnel
    THEN IF h.rq._apply_tunnel
         THEN IF ~h.cn.is_tls
              THEN bind_event(Did([h EXCEPT !.rs._request = "tunnel"], "substitute"),
                              "on_headers", "on_headers")
              ELSE h
         ELSE bind_event(Did([h EXCEPT !.rq._apply_tunnel = TRUE], "arm"),
                         "pre_request", "Tunneling")
    ELSE h

\* Tunneling._tunnel_consumer: returns the Future d
_tunnel_consumer(h) ==
    LET h1 == Did([h EXCEPT !.cn.d = "pending", !.cn.reader = FALSE], "remove_reader")
    IN  Did([h1 EXCEPT !.cn.scheduled = TRUE, !.rs.result = "future"], "call_later")

\* post_request fires on the response: handlers run in registration order
RECURSIVE fire_post_request(_, _)
fire_post_request(h, i) ==
    IF i > Len(h.rs.bound.post_request)
    THEN h
    ELSE fire_post_request(_tunnel_consumer(h), i + 1)

\* HttpResponse.finished: post_request fires with the response as its result,
\* then on_finished, which resolves a future chained to it
response_finished(h) ==
    LET h1 == Did([h EXCEPT !.rs.phase = "finished", !.rs.result = "response"],
                  "finished")
        h2 == fire_post_request(h1, 1)
    IN  IF h2.rs.chained /\ h2.cn.d = "pending"
        THEN [h2 EXCEPT !.cn.d = "resolved"]
        ELSE h2

\* Tunneling.on_headers
on_headers(h) ==
    IF h.rs.status_code = 200
    THEN response_finished(bind_event(h, "post_request", "_tunnel_consumer"))
    ELSE h

\* pre_request fires on the response: handlers run in registration order, one
\* appended while the event fires included
RECURSIVE fire_pre_request(_, _)
fire_pre_request(h, i) ==
    IF i > Len(h.rs.bound.pre_request)
    THEN h
    ELSE LET hnd == h.rs.bound.pre_request[i]
         IN  fire_pre_request(IF hnd = "handle_100" THEN handle_100(h)
                              ELSE Tunneling(h), i + 1)

\* on_headers fires on the response
RECURSIVE fire_on_headers(_, _)
fire_on_headers(h, i) ==
    IF i > Len(h.rs.bound.on_headers)
    THEN h
    ELSE LET hnd == h.rs.bound.on_headers[i]
         IN  fire_on_headers(IF hnd = "_write_body" THEN _write_body(h)
                             ELSE on_headers(h), i + 1)

\* HttpResponse.new_request: pre_request fires, then the request the response
\* now has is written, its body with it unless a 100 is awaited
response_new_request(h) ==
    LET h1 == fire_pre_request([h EXCEPT !.rs._request = "request"], 1)
        h2 == [h1 EXCEPT !.rs.phase = "sent", !.cn._processed = @ + 1,
                         !.cn._requests_processed = @ + 1]
    IN  IF h2.rs._request = "tunnel"
        THEN Did(h2, "write CONNECT")
        ELSE IF h2.rq.body /\ ~h2.rq.expect
        THEN Did(Did(h2, "write head"), "write body")
        ELSE Did(h2, "write head")

\* Tunneling.switch_to_ssl: the lookup of a name the module does not bind
\* raises NameError, an Exception, and d.callback(sys.exc_info()) runs
switch_to_ssl(h) ==
    LET n == h.cn.consumers + 1
        h0 == Did([h EXCEPT !.cn.scheduled = FALSE], "switch_to_ssl")
    IN  IF "SocketStreamSslTransport" \in ModuleNames
        THEN LET h1 == Did([h0 EXCEPT !.cn.is_tls = TRUE, !.cn.silenced = TRUE,
                                      !.cn._processed = @ - 1,
                                      !.cn._requests_processed = @ - 1,
                                      !.cn.consumers = n,
                                      !.rs = NewConsumer(n)], "wrap")
                 h2 == response_new_request(h1)
             IN  [h2 EXCEPT !.rs.chained = TRUE]
        ELSE [h0 EXCEPT !.cn.d = "failed"]

\* Client.response: the consumer starts its request
NewRequest ==
    /\ http_response.phase = "new"
    /\ ApplyHttp(response_new_request(HttpState))

\* the headers of a reply arrive: on_headers fires; a parser reset on a 100
\* awaits the next status line
OnHeaders(status) ==
    /\ http_response.phase = "sent"
    /\ http_connection.reader
    /\ LET h0 == Did([HttpState EXCEPT !.rs.status_code = status],
                     IF status = 100 THEN "recv 100"
                     ELSE IF status = 200 THEN "recv 200" ELSE "recv 407")
           h1 == fire_on_headers(h0, 1)
       IN  ApplyHttp(IF h1.rs.phase = "finished"
                     THEN h1
                     ELSE IF h1.resets > h0.resets
                     THEN [h1 EXCEPT !.rs.status_code = None]
                     ELSE [h1 EXCEPT !.rs.phase = "headers"])

\* the reply is complete
Complete ==
    /\ http_response.phase = "headers"
    /\ ApplyHttp(response_finished(HttpState))

\* the event loop runs the call it was asked to make later
Tick ==
    /\ http_connection.scheduled
    /\ ApplyHttp(switch_to_ssl(HttpState))

HttpNext ==
    \/ NewRequest
    \/ \E status \in HttpStatuses : OnHeaders(status)
    \/ Complete
    \/ Tick

HttpConnection(tls) ==
    [is_tls |-> tls, reader |-> TRUE, scheduled |-> FALSE, d |-> "none",
     silenced |-> FALSE, consumers |-> 1, _processed |-> 0,
     _requests_processed |-> 0]

HttpIdle ==
    /\ http_request = [expect |-> FALSE, body |-> FALSE, _tunnel |-> FALSE,
                       _apply_tunnel |-> FALSE]
    /\ http_response = NewConsumer(1)
    /\ http_connection = HttpConnection(FALSE)
    /\ parser_resets = 0
    /\ trace = <<>>

HttpInit ==
    /\ \E e \in BOOLEAN, b \in BOOLEAN, tn \in BOOLEAN :
          http_request = [expect |-> e, body |-> b, _tunnel |-> tn,
                          _apply_tunnel |-> FALSE]
    /\ http_response = NewConsumer(1)
    /\ \E tls \in BOOLEAN : http_connection = HttpConnection(tls)
    /\ parser_resets = 0
    /\ trace = <<>>

\* ---------------------------------------------------- specifications
vars == <<poolvars, redirectvars, httpvars>>

\* a Client with no request made yet
PoolIdle ==
    /\ PoolInit
    /\ max_connections = 1
    /\ max_reconnect = 1
    /\ ~reuse_overridden
    /\ ~single

Init == PoolInit /\ RedirectIdle /\ HttpIdle
Next == PoolNext
Spec == Init /\ [][Next]_vars

InitRedirect == PoolIdle /\ RedirectInit /\ HttpIdle
NextRedirect == RedirectNext
SpecRedirect == InitRedirect /\ [][NextRedirect]_vars

InitHttp == PoolIdle /\ RedirectIdle /\ HttpInit
NextHttp == HttpNext
SpecHttp == InitHttp /\ [][NextHttp]_vars

\* ------------------------------------------------------------- claims
\* C1: no Connection is at the same time a member of the available set and
\* of the concurrent set of a pool.
C1_Disjoint == \A p \in Pools : available[p] \cap concurrent[p] = {}

\* a released connection was taken from available again and is in use
C1_Witness ==
    /\ last.acquired
    /\ last.conn # None
    /\ ~last.created
    /\ last.conn \in concurrent[last.apool]

\* C2: every pool was built with the Client's max_connections, and the number
\* of its available connections plus the number of its concurrent ones never
\* exceeds it.
C2_Budget ==
    \A p \in 1..npools :
        /\ pool_max[p] = max_connections
        /\ Cardinality(available[p]) + Cardinality(concurrent[p]) <= max_connections

\* a pool at its cap refused an acquisition
C2_Witness ==
    /\ last.err = "TooManyConnections"
    /\ Cardinality(available[last.apool]) + Cardinality(concurrent[last.apool])
         = max_connections

C4_PoolGone == last.rpool # None => ~last.registered

\* the last connection of a pool was lost while idle, after its release
C4_Witness ==
    /\ last.op = "connection_lost"
    /\ last.rpool # None
    /\ ~last.registered
    /\ \E k \in 1..nconsumers : cstate[k] = "finished"

\* C5 as stated: the acquisition that follows a reusing release of a
\* connection that is still idle and not stale returns that very connection.
C5_ReturnsReleased ==
    last.acquired /\ last.usable =>
        /\ last.conn = last.expect
        /\ ~last.created

\* C5 as amended: that acquisition builds no connection and returns an idle,
\* non stale connection of available, the released one when there is no other.
C5_ReturnsIdle ==
    last.acquired /\ last.usable =>
        /\ ~last.created
        /\ last.err = ""
        /\ last.conn \in {last.expect} \cup last.others
        /\ last.others = {} => last.conn = last.expect

\* another idle connection was in available and was returned instead
C5_Witness ==
    /\ last.acquired
    /\ last.usable
    /\ last.others # {}
    /\ last.conn \in last.others
    /\ last.expect \in available[last.apool]

\* C6: pre_request, post_request and finish each fire at most once per
\* ProtocolConsumer.
C6_AtMostOnce ==
    \A e \in ConsumerEvents : \A k \in Consumers : fired[e][k] <= 1

\* C7: answered with followed redirects only, a request makes at most
\* max_redirects + 1 exchanges.
C7_RedirectBound ==
    all_redirects => Len(responses) <= request.max_redirects + 1

C9_History ==
    redirected.done =>
        /\ heap[redirected.params.history]
             = Append(redirected.before, redirected.response)
        /\ request.history = redirected.params.history
        /\ redirected.params.history # redirected.request.history
        /\ redirected.request.history # None =>
               heap[redirected.request.history] = redirected.before

\* a second redirect: the redirected request had a history of its own
C9_Witness ==
    /\ redirected.done
    /\ redirected.request.history # None
    /\ Len(redirected.before) >= 1

\* C10: a connection upgraded by handle_101 is in no available set and is
\* not handed out by get_or_create_connection.
C10_NotReturned ==
    /\ \A c \in Conns : upgraded[c] = "101" =>
           \A p \in Pools : c \notin available[p]
    /\ last.acquired /\ last.conn # None /\ ~last.created =>
           upgraded[last.conn] # "101"

\* the place of the first what in the trace, 0 when there is none
Index(seq, what) ==
    IF \E i \in 1..Len(seq) : seq[i] = what
    THEN CHOOSE i \in 1..Len(seq) :
            seq[i] = what /\ \A j \in 1..(i - 1) : seq[j] # what
    ELSE 0

Received == {"recv 100", "recv 200", "recv 407"}

\* the first reply, 0 when there is none yet
FirstReply ==
    IF \E i \in 1..Len(trace) : trace[i] \in Received
    THEN CHOOSE i \in 1..Len(trace) :
            trace[i] \in Received /\ \A j \in 1..(i - 1) : trace[j] \notin Received
    ELSE 0

\* C11: when a request with Expect: 100-continue and a body has a 100 as its
\* first reply, the parser has been reset exactly once and the body has been
\* written after the 100, never before it, and before any final reply.
C11_Continue ==
    /\ http_request.expect
    /\ http_request.body
    /\ Index(trace, "write head") # 0
    /\ FirstReply # 0
    /\ trace[FirstReply] = "recv 100"
    => /\ parser_resets = 1
       /\ Index(trace, "write body") > FirstReply
       /\ \A i \in 1..Len(trace) :
             trace[i] \in {"recv 200", "recv 407"} => i > Index(trace, "write body")

\* the steps of a tunnel up to the rewrap of the socket
TunnelSteps ==
    <<"arm", "substitute", "write CONNECT", "recv 200", "finished",
      "remove_reader", "call_later", "switch_to_ssl", "wrap">>

\* C12: once switch_to_ssl has run for a tunnel whose CONNECT was answered
\* with 200, the steps have happened in the order of TunnelSteps, each once,
\* the real request was written only after them, on a new consumer over TLS
\* with connection_made silenced, and the waiting future has not failed: it
\* is resolved when that consumer finishes.
C12_TunnelOrder ==
    Index(trace, "switch_to_ssl") # 0 =>
        /\ Len(trace) > Len(TunnelSteps)
        /\ SubSeq(trace, 1, Len(TunnelSteps)) = TunnelSteps
        /\ Index(trace, "write head") = Len(TunnelSteps) + 1
        /\ http_connection.is_tls
        /\ http_connection.silenced
        /\ http_response.id = 2
        /\ http_connection.d # "failed"
        /\ http_response.phase = "finished" => http_connection.d = "resolved"

\* C13: when the CONNECT of a tunnelled request was answered with a status
\* other than 200 and the consumer has ended, it has ended with a failure and
\* not with a completed response, switch_to_ssl was neither scheduled nor run,
\* the real request was never written and the CONNECT was written once.
C13_BadConnect ==
    /\ http_response._request = "tunnel"
    /\ http_response.phase = "finished"
    /\ http_response.status_code # 200
    => /\ http_response.result = "failure"
       /\ ~http_connection.scheduled
       /\ http_connection.d = "none"
       /\ Index(trace, "switch_to_ssl") = 0
       /\ Index(trace, "write head") = 0
       /\ Cardinality({i \in 1..Len(trace) : trace[i] = "write CONNECT"}) = 1

C15_NoClosedMember ==
    \A p \in Pools : \A c \in available[p] \cup concurrent[p] : ~closed[c]

\* C16: when get_or_create_connection returns, a connection it took from
\* available was not stale and is in concurrent; every stale connection it
\* popped is out of available and closed; the idle connections it did not
\* pop are still in available; it built a connection, or found the pool full,
\* only with available exhausted.
C16_NeverStale ==
    last.acquired =>
        LET p == last.apool
            fresh == last.idle \ last.stale
            popped == last.idle \ available[p]
        IN  /\ last.conn # None /\ ~last.created =>
                  /\ last.conn \in fresh
                  /\ ~closed[last.conn] /\ ~expired[last.conn]
                  /\ last.conn \in concurrent[p]
                  /\ fresh \ {last.conn} \subseteq available[p]
            /\ \A c \in popped \cap last.stale :
                  closed[c] /\ c \notin concurrent[p]
            /\ last.created \/ last.err # "" =>
                  /\ fresh = {}
                  /\ available[p] = {}
                  /\ \A c \in last.stale : closed[c]

\* a stale connection was popped and closed, a second one was returned
C16_Witness ==
    /\ last.acquired
    /\ last.conn # None
    /\ ~last.created
    /\ \E c \in last.stale : expired[c] /\ closed[c] /\ c \notin available[last.apool]

\* C17: when _try_reconnect has run, a reconnect was started or scheduled
\* only if exc was a socket.timeout or a socket.error, the lost connection
\* had a current consumer and can_reconnect returned a non-zero number; in
\* every other case no connection was acquired, nothing was scheduled and the
\* current consumer of the lost connection was left as it was.
C17_OnlyIf ==
    last.tried =>
        LET may == /\ last.texc \in {"socket.timeout", "socket.error"}
                   /\ last.before # None
                   /\ last.tretries # 0
        IN  /\ last.reconnect \/ last.scheduled => may
            /\ ~may => /\ ~last.acquired
                       /\ last.newtr = 0
                       /\ ~last.reconnect
                       /\ ~last.scheduled
                       /\ last.after = last.before

\* a socket failure with a consumer attached that can_reconnect refused
C17_Witness ==
    /\ last.tried
    /\ last.texc \in {"socket.timeout", "socket.error"}
    /\ last.before # None
    /\ last.tretries = 0
    /\ last.after = last.before
    /\ ~last.acquired

\* C18: when can_reconnect returned 1, _reconnect ran inside the
\* connection_lost handler; when it returned 2 or more, _reconnect was handed
\* to the event loop to run later.
C18_LagSchedules ==
    last.tried /\ last.tretries >= 1 =>
        IF last.tretries = 1
        THEN last.reconnect /\ ~last.scheduled
        ELSE last.scheduled

\* C19: the connection a reconnect replays the request on was acquired from
\* the pool of the lost connection and is not the lost connection; the
\* consumer is the current consumer of that connection and of no other, and
\* new_request was called once more, with the current_request it had.
C19_FreshConnection ==
    last.reconnect /\ last.conn # None =>
        LET k == last.before
        IN  /\ last.apool = conn_pool[last.lostconn]
            /\ conn_pool[last.conn] = last.apool
            /\ last.conn # last.lostconn
            /\ current_consumer[last.conn] = k
            /\ \A c \in Conns \ {last.conn} : current_consumer[c] # k
            /\ connection[k] = last.conn
            /\ current_request[k] = last.treq
            /\ new_requests[k] = last.tnreq + 1

\* a reconnect replayed the request on another connection of the pool
C19_Witness ==
    /\ last.reconnect
    /\ last.conn # None
    /\ last.before # None
    /\ lost[last.lostconn]
    /\ current_consumer[last.conn] = last.before
    /\ cstate[last.before] = "requesting"

\* C20: every entry remove_pool(pool) removes from connection_pools holds
\* that very pool; called with a pool that is not registered it removes none.
C20_OnlyItself ==
    \A r \in last.removals : r.was = r.pool

\* C21: every ConnectionPool with a connection in available or in concurrent
\* is the entry of connection_pools under its own key, so no two pools with
\* connections have the same key.
C21_HoldersRegistered ==
    /\ \A p \in 1..npools :
          available[p] \cup concurrent[p] # {} => connection_pools[pool_key[p]] = p
    /\ \A p \in 1..npools, q \in 1..npools :
          /\ p # q
          /\ available[p] \cup concurrent[p] # {}
          /\ available[q] \cup concurrent[q] # {}
          => pool_key[p] # pool_key[q]

====
